---- MODULE Spec2Model ----
(***************************************************************************)
(* Model of src/midi_postprocessing.py: the polyphony-to-monophony,        *)
(* range-fitting and legato post-processing of a generated melody.         *)
(*                                                                         *)
(* A note is the Python list [start, end, pitch]; here it is the record    *)
(* [start, end, pitch, src], where src is the position of the note in the  *)
(* input file (the identity of the Python list object, which the code      *)
(* never copies).  Times are integers (multiples of a common tick).        *)
(***************************************************************************)
EXTENDS Integers, Sequences, FiniteSets, TLC

VARIABLES
  events,               \* the notes of the input midi file, in file order
  time_multiplier,      \* parameter time_multiplier
  logic_type,           \* parameter logic_type
  add_legato,           \* parameter add_legato
  range_min,            \* global_var['melody_lower_boundary']
  range_max,            \* global_var['melody_upper_boundary']
  midi_list,            \* scaled and sorted notes
  group_by_start_time,  \* sequence of groups (sequences of notes)
  gi,                   \* position of the per-group loop (next group to process)
  selected_notes,       \* the accepted notes
  out_midi,             \* the notes written to the output file
  written,              \* number of times the output file was written
  pitches_count,        \* the returned value (-1: nothing returned)
  pc                    \* "read", "loop", "return", "done", "failed"

vars == <<events, time_multiplier, logic_type, add_legato, range_min, range_max,
          midi_list, group_by_start_time, gi, selected_notes, out_midi, written,
          pitches_count, pc>>

-----------------------------------------------------------------------------
(* Bounds of the model                                                     *)

MaxEvents == 3       \* notes in the input file (timing specification)
MaxChord == 6        \* notes of the single chord (chord specification)
MaxFitEvents == 2    \* notes in the input file (range specification)
MaxPitch == 127      \* pitches 0..MaxPitch are given to fit_to_pitch_range

Starts == {0, 1, 2, 3}
Durations == {1, 2}
Pitches == {60, 90}
Multipliers == {1, 2}
LogicTypes == {0, 1, 2, 3}          \* 3 is an invalid logic type
Ranges == {[min |-> 48, max |-> 72]}

FitStarts == {0, 1}
FitPitches == {30, 36, 47, 54, 61, 84}
FitRanges == {[min |-> 48, max |-> 57], [min |-> 48, max |-> 59],
              [min |-> 48, max |-> 60], [min |-> 40, max |-> 64]}

ChordPitches == {60, 64}

-----------------------------------------------------------------------------
(* select_note_from_group                                                  *)

\* The indices (0-based, as in the code) that select_note_from_group may pick
\* in a group of n notes.  middle = float(n)/2, so "middle % 2 == 0" is
\* n % 4 = 0, int(middle) is n \div 2, int(middle-1) is n \div 2 - 1 on the
\* even lengths that reach that branch, and int(middle - .5) is
\* (n-1) \div 2 (truncation of a non-negative value).
SelectIdx(n, lt) ==
  IF lt = 0 THEN {0}
  ELSE IF lt = 1
       THEN IF n % 4 = 0 \/ n = 2
            THEN {n \div 2, n \div 2 - 1}
            ELSE {(n - 1) \div 2}
       ELSE {n - 1}

\* The assertion at the head of select_note_from_group
ValidLogic(lt) == lt >= 0 /\ lt <= 2

-----------------------------------------------------------------------------
(* fit_to_pitch_range                                                      *)

\* variant: the quotient is truncated instead of rounded up
CeilOctaves_Floor(a) == a \div 12

\* int(math.ceil(a / 12)) for a > 0
CeilOctaves(a) == (a + 11) \div 12

FitPitch(pitch, rmin, rmax) ==
  IF pitch > rmax THEN pitch - 12 * CeilOctaves(pitch - rmax)
  ELSE IF pitch < rmin THEN pitch + 12 * CeilOctaves(rmin - pitch)
  ELSE pitch

fit_to_pitch_range(note, rmin, rmax) ==
  [note EXCEPT !.pitch = FitPitch(note.pitch, rmin, rmax)]

-----------------------------------------------------------------------------
(* midi_postprocessing: reading, scaling, sorting, grouping                *)

\* variant: the end time is not multiplied
ScaledNote_EndUnscaled(ev, i, tm) ==
  [start |-> ev.start * tm, end |-> ev.end, pitch |-> ev.pitch, src |-> i]

\* [start, end, pitch] of the i-th note of the file, times scaled
ScaledNote(ev, i, tm) ==
  [start |-> ev.start * tm, end |-> ev.end * tm, pitch |-> ev.pitch, src |-> i]

ScaledList(evs, tm) == [i \in 1..Len(evs) |-> ScaledNote(evs[i], i, tm)]

\* the sort key (x[0], x[2]), compared lexicographically
KeyLE(a, b) == a.start < b.start \/ (a.start = b.start /\ a.pitch <= b.pitch)

\* s is sorted; x goes after every element whose key is <= its key (stable)
InsertNote(s, x) ==
  LET k == Cardinality({i \in 1..Len(s) : KeyLE(s[i], x)})
  IN SubSeq(s, 1, k) \o <<x>> \o SubSeq(s, k + 1, Len(s))

RECURSIVE SortNotes(_)
SortNotes(s) ==
  IF s = <<>> THEN <<>>
  ELSE InsertNote(SortNotes(SubSeq(s, 1, Len(s) - 1)), s[Len(s)])

\* sorted(set(...)): the elements of a set of numbers in ascending order
RECURSIVE SortedValues(_)
SortedValues(S) ==
  IF S = {} THEN <<>>
  ELSE LET m == CHOOSE x \in S : \A y \in S : x <= y
       IN <<m>> \o SortedValues(S \ {m})

SameStart(list, x) == SelectSeq(list, LAMBDA y : y.start = x)

GroupByStartTime(list) ==
  LET values == SortedValues({list[i].start : i \in 1..Len(list)})
  IN [k \in 1..Len(values) |-> SameStart(list, values[k])]

-----------------------------------------------------------------------------
(* midi_postprocessing: the body of the per-group loop after the selection *)

\* variant: no overlap test, every candidate is appended
LoopBody_NoGate(sel, note, legato) ==
  IF Len(sel) > 0
  THEN Append(IF legato THEN [sel EXCEPT ![Len(sel)].end = note.start] ELSE sel,
              note)
  ELSE Append(sel, note)

\* variant: add_legato is ignored
LoopBody_NoLegato(sel, note, legato) ==
  IF Len(sel) > 0
  THEN IF note.start >= sel[Len(sel)].end THEN Append(sel, note) ELSE sel
  ELSE Append(sel, note)

\* variant: the legato assignment is made before the overlap test, so that a
\* rejected candidate trims the previous note
LoopBody_Trim(sel, note, legato) ==
  IF Len(sel) > 0
  THEN LET s2 == IF legato THEN [sel EXCEPT ![Len(sel)].end = note.start]
                           ELSE sel
       IN IF note.start >= sel[Len(sel)].end THEN Append(s2, note) ELSE s2
  ELSE Append(sel, note)

\* variant: legato closes the gap by moving the start of the new note back
LoopBody_PullStart(sel, note, legato) ==
  IF Len(sel) > 0
  THEN IF note.start >= sel[Len(sel)].end
       THEN Append(sel, IF legato THEN [note EXCEPT !.start = sel[Len(sel)].end]
                                  ELSE note)
       ELSE sel
  ELSE Append(sel, note)

LoopBody(sel, note, legato) ==
  IF Len(sel) > 0
  THEN IF note.start >= sel[Len(sel)].end
       THEN Append(IF legato THEN [sel EXCEPT ![Len(sel)].end = note.start]
                             ELSE sel,
                   note)
       ELSE sel
  ELSE Append(sel, note)

-----------------------------------------------------------------------------
(* Initial states: the arguments of one call                               *)

EventLists(maxN, S, D, P) ==
  UNION {[1..n -> {[start |-> s, end |-> s + d, pitch |-> p] :
                     s \in S, d \in D, p \in P}] : n \in 0..maxN}

InitLocals ==
  /\ midi_list = <<>>
  /\ group_by_start_time = <<>>
  /\ gi = 1
  /\ selected_notes = <<>>
  /\ out_midi = <<>>
  /\ written = 0
  /\ pitches_count = -1
  /\ pc = "read"

Init ==
  /\ events \in EventLists(MaxEvents, Starts, Durations, Pitches)
  /\ time_multiplier \in Multipliers
  /\ logic_type \in LogicTypes
  /\ add_legato \in BOOLEAN
  /\ \E r \in Ranges : range_min = r.min /\ range_max = r.max
  /\ InitLocals

\* calls that differ in the pitches and in the range
InitFit ==
  /\ events \in EventLists(MaxFitEvents, FitStarts, {1}, FitPitches)
  /\ time_multiplier = 1
  /\ logic_type \in LogicTypes
  /\ add_legato = TRUE
  /\ \E r \in FitRanges : range_min = r.min /\ range_max = r.max
  /\ InitLocals

\* calls whose input is one chord of up to MaxChord notes
InitChord ==
  /\ events \in EventLists(MaxChord, {0}, {1}, ChordPitches)
  /\ time_multiplier = 1
  /\ logic_type \in LogicTypes
  /\ add_legato \in BOOLEAN
  /\ \E r \in Ranges : range_min = r.min /\ range_max = r.max
  /\ InitLocals

-----------------------------------------------------------------------------
(* Actions                                                                 *)

\* lines 144-164: read, scale, sort, group
ReadInput ==
  /\ pc = "read"
  /\ midi_list' = SortNotes(ScaledList(events, time_multiplier))
  /\ group_by_start_time' = GroupByStartTime(midi_list')
  /\ selected_notes' = <<>>
  /\ gi' = 1
  /\ pc' = "loop"
  /\ UNCHANGED <<events, time_multiplier, logic_type, add_legato, range_min,
                 range_max, out_midi, written, pitches_count>>

\* lines 166-192: one iteration of the loop, the selection succeeding
ProcessGroup ==
  /\ pc = "loop"
  /\ gi <= Len(group_by_start_time)
  /\ LET group == group_by_start_time[gi]
     IN /\ Len(group) > 1 => ValidLogic(logic_type)
        /\ \E idx \in (IF Len(group) > 1 THEN SelectIdx(Len(group), logic_type)
                                         ELSE {0}) :
             selected_notes' =
               LoopBody(selected_notes,
                        fit_to_pitch_range(group[idx + 1], range_min, range_max),
                        add_legato)
  /\ gi' = gi + 1
  /\ UNCHANGED <<events, time_multiplier, logic_type, add_legato, range_min,
                 range_max, midi_list, group_by_start_time, out_midi, written,
                 pitches_count, pc>>

\* variant: the notes accepted so far are written out when the call fails
SelectFail_WritesPartial ==
  /\ pc = "loop"
  /\ gi <= Len(group_by_start_time)
  /\ Len(group_by_start_time[gi]) > 1
  /\ ~ValidLogic(logic_type)
  /\ out_midi' = selected_notes
  /\ written' = written + 1
  /\ pc' = "failed"
  /\ UNCHANGED <<events, time_multiplier, logic_type, add_legato, range_min,
                 range_max, midi_list, group_by_start_time, gi, selected_notes,
                 pitches_count>>

\* lines 168-169, 41: the assertion of select_note_from_group fails
SelectFail ==
  /\ pc = "loop"
  /\ gi <= Len(group_by_start_time)
  /\ Len(group_by_start_time[gi]) > 1
  /\ ~ValidLogic(logic_type)
  /\ pc' = "failed"
  /\ UNCHANGED <<events, time_multiplier, logic_type, add_legato, range_min,
                 range_max, midi_list, group_by_start_time, gi, selected_notes,
                 out_midi, written, pitches_count>>

\* lines 194-209: the loop is over; the output file is written
WriteOutput ==
  /\ pc = "loop"
  /\ gi > Len(group_by_start_time)
  /\ out_midi' = selected_notes
  /\ written' = written + 1
  /\ pc' = "return"
  /\ UNCHANGED <<events, time_multiplier, logic_type, add_legato, range_min,
                 range_max, midi_list, group_by_start_time, gi, selected_notes,
                 pitches_count>>

\* variant: the number of input notes is returned
Return_CountsInput ==
  /\ pc = "return"
  /\ pitches_count' = Len(midi_list)
  /\ pc' = "done"
  /\ UNCHANGED <<events, time_multiplier, logic_type, add_legato, range_min,
                 range_max, midi_list, group_by_start_time, gi, selected_notes,
                 out_midi, written>>

\* lines 211-212
Return ==
  /\ pc = "return"
  /\ pitches_count' = Len(selected_notes)
  /\ pc' = "done"
  /\ UNCHANGED <<events, time_multiplier, logic_type, add_legato, range_min,
                 range_max, midi_list, group_by_start_time, gi, selected_notes,
                 out_midi, written>>

Next == ReadInput \/ ProcessGroup \/ SelectFail \/ WriteOutput \/ Return

Spec == Init /\ [][Next]_vars
SpecFit == InitFit /\ [][Next]_vars
SpecChord == InitChord /\ [][Next]_vars

-----------------------------------------------------------------------------
(* Properties                                                              *)

\* the input note a processed note was made from
Orig(note) == events[note.src]

\* the number of candidates the overlap test has rejected so far
Rejected == (gi - 1) - Len(selected_notes)

NoOverlap(seq) == \A i \in 1..(Len(seq) - 1) : seq[i].end <= seq[i + 1].start

\* C1: after every iteration of the loop and in the written output, every
\* note ends no later than the next one starts.
C1_NonOverlap == NoOverlap(selected_notes) /\ NoOverlap(out_midi)

C1_Witness ==
  /\ pc = "done"
  /\ Len(out_midi) >= 2
  /\ Rejected >= 1

\* C2: with add_legato, every note of the output ends exactly where the next
\* one starts.
C2_LegatoClosure ==
  add_legato =>
    /\ \A i \in 1..(Len(selected_notes) - 1) :
         selected_notes[i].end = selected_notes[i + 1].start
    /\ \A i \in 1..(Len(out_midi) - 1) : out_midi[i].end = out_midi[i + 1].start

\* a gap between two accepted notes was closed
C2_Witness ==
  /\ pc = "done"
  /\ add_legato
  /\ Len(out_midi) >= 2
  /\ Orig(out_midi[1]).end * time_multiplier < out_midi[2].start

\* C3: when range_max - range_min >= 11, fit_to_pitch_range maps every pitch
\* into [range_min, range_max], and every accepted and every written note has
\* its pitch in that range.
C3_RangeContainment ==
  range_max - range_min >= 11 =>
    /\ \A p \in 0..MaxPitch :
         FitPitch(p, range_min, range_max) \in range_min..range_max
    /\ \A i \in 1..Len(selected_notes) :
         selected_notes[i].pitch \in range_min..range_max
    /\ \A i \in 1..Len(out_midi) : out_midi[i].pitch \in range_min..range_max

\* one note was transposed down and another up
C3_Witness ==
  /\ pc = "done"
  /\ range_max - range_min >= 11
  /\ \E i, j \in 1..Len(out_midi) :
       /\ Orig(out_midi[i]).pitch > range_max
       /\ Orig(out_midi[j]).pitch < range_min

\* C4 as stated: every output note has the scaled start and the scaled end
\* of the input note it came from.
C4_Original ==
  \A i \in 1..Len(out_midi) :
    /\ out_midi[i].start = time_multiplier * Orig(out_midi[i]).start
    /\ out_midi[i].end = time_multiplier * Orig(out_midi[i]).end

\* C4 amended: every output note has the scaled start of its input note; its
\* end is the scaled end of its input note, except that with add_legato the
\* end of every note but the last is the start of the next output note, which
\* is not before that scaled end.
C4_ScalingWithLegato ==
  \A i \in 1..Len(out_midi) :
    /\ out_midi[i].start = time_multiplier * Orig(out_midi[i]).start
    /\ IF add_legato /\ i < Len(out_midi)
       THEN /\ out_midi[i].end = out_midi[i + 1].start
            /\ out_midi[i].end >= time_multiplier * Orig(out_midi[i]).end
       ELSE out_midi[i].end = time_multiplier * Orig(out_midi[i]).end

C4_Witness ==
  /\ pc = "done"
  /\ time_multiplier = 2
  /\ add_legato
  /\ Len(out_midi) >= 2
  /\ out_midi[1].end > time_multiplier * Orig(out_midi[1]).end

\* C5 as stated: with a logic type outside {0, 1, 2} the call never accepts a
\* note, never writes the output and never returns.
C5_InvalidPolicyFailsFast ==
  ~ValidLogic(logic_type) =>
    /\ selected_notes = <<>>
    /\ written = 0
    /\ pc \notin {"return", "done"}

\* C6: the output is written at most once and only by a call that does not
\* fail; a failed call has written nothing; a call that returned has written
\* the output once and returned the number of notes in it.
C6_AllOrNothing ==
  /\ written <= 1
  /\ written = 1 => (pc \in {"return", "done"} /\ out_midi = selected_notes)
  /\ pc = "failed" => (written = 0 /\ out_midi = <<>> /\ pitches_count = -1)
  /\ pc = "done" => (written = 1 /\ pitches_count = Len(out_midi))

\* the call failed after it had accepted a note
C6_Witness == pc = "failed" /\ selected_notes # <<>>

\* C7 as stated: under logic type 1, a group of even length n may yield index
\* n/2 - 1 and index n/2 and no other, and a group of odd length yields
\* index (n-1)/2.
C7_MiddleChoice ==
  (/\ pc = "loop"
   /\ gi <= Len(group_by_start_time)
   /\ logic_type = 1
   /\ Len(group_by_start_time[gi]) > 1) =>
    LET n == Len(group_by_start_time[gi])
    IN SelectIdx(n, logic_type) =
         IF n % 2 = 0 THEN {n \div 2 - 1, n \div 2} ELSE {(n - 1) \div 2}

DistinctStarts ==
  {events[i].start * time_multiplier : i \in 1..Len(events)}

\* C8: the accepted notes are never more than the distinct scaled start
\* times, which are never more than the input notes; the returned count is
\* the length of the output, and 0 for the empty input.
C8_CountBound ==
  /\ Len(selected_notes) <= Cardinality(DistinctStarts)
  /\ Cardinality(DistinctStarts) <= Len(events)
  /\ pc = "done" =>
       /\ pitches_count = Len(out_midi)
       /\ pitches_count <= Cardinality(DistinctStarts)
       /\ events = <<>> => pitches_count = 0

C8_Witness ==
  /\ pc = "done"
  /\ pitches_count >= 1
  /\ pitches_count < Cardinality(DistinctStarts)
  /\ Cardinality(DistinctStarts) < Len(events)

\* C9 as stated: no step changes any field of a note already accepted.
C9_Original ==
  [][\A i \in 1..Len(selected_notes) :
       /\ i <= Len(selected_notes')
       /\ selected_notes'[i] = selected_notes[i]]_vars

\* C9 amended: no step changes the start or the pitch of an accepted note; a
\* step that accepts no note changes nothing of the accepted notes; the end
\* of an accepted note changes only when add_legato is set and the step
\* accepts a candidate, and then only the end of the last accepted note, which
\* becomes the start of that candidate.
C9_FrameExceptLegato ==
  [][/\ \A i \in 1..Len(selected_notes) :
          /\ i <= Len(selected_notes')
          /\ selected_notes'[i].start = selected_notes[i].start
          /\ selected_notes'[i].pitch = selected_notes[i].pitch
          /\ selected_notes'[i].src = selected_notes[i].src
          /\ selected_notes'[i].end # selected_notes[i].end =>
               /\ add_legato
               /\ i = Len(selected_notes)
               /\ Len(selected_notes') = Len(selected_notes) + 1
               /\ selected_notes'[i].end = selected_notes'[i + 1].start
     /\ Len(selected_notes') = Len(selected_notes) =>
          selected_notes' = selected_notes]_vars

\* a candidate was rejected, and the end of an accepted note was rewritten
C9_Witness ==
  /\ add_legato
  /\ Rejected >= 1
  /\ Len(selected_notes) >= 2
  /\ selected_notes[1].end # time_multiplier * Orig(selected_notes[1]).end

\* the candidate of a group under logic types 0 and 2, which select one index
Candidate(group, lt) ==
  IF Len(group) > 1
  THEN group[(CHOOSE i \in SelectIdx(Len(group), lt) : TRUE) + 1]
  ELSE group[1]

\* the accepted notes after the first k iterations of the loop, under logic
\* types 0 and 2, with the given legato setting
RECURSIVE SelectedAfter(_, _)
SelectedAfter(k, legato) ==
  IF k = 0 THEN <<>>
  ELSE LoopBody(SelectedAfter(k - 1, legato),
                fit_to_pitch_range(Candidate(group_by_start_time[k], logic_type),
                                   range_min, range_max),
                legato)

\* C10: under logic types 0 and 2, after every iteration, the run with
\* add_legato and the run without it on the same input have accepted the same
\* notes: same number, same starts and pitches, same end of the last note,
\* and every other end at least as late with legato as without.
C10_LegatoSameNotes ==
  (pc \in {"loop", "return", "done"} /\ logic_type \in {0, 2}) =>
    LET other == SelectedAfter(gi - 1, ~add_legato)
        L == IF add_legato THEN selected_notes ELSE other
        N == IF add_legato THEN other ELSE selected_notes
    IN /\ Len(L) = Len(N)
       /\ \A i \in 1..Len(L) :
            /\ L[i].start = N[i].start
            /\ L[i].pitch = N[i].pitch
            /\ L[i].src = N[i].src
            /\ IF i = Len(L) THEN L[i].end = N[i].end ELSE L[i].end >= N[i].end

\* a candidate was rejected and legato has lengthened a note
C10_Witness ==
  /\ pc = "done"
  /\ logic_type \in {0, 2}
  /\ add_legato
  /\ Rejected >= 1
  /\ \E i \in 1..Len(selected_notes) :
       selected_notes[i].end > time_multiplier * Orig(selected_notes[i]).end

====
